---- MODULE Spec2Model ----
(***************************************************************************)
(* A model of the simulation core of kinggame1d: the World (room graph,    *)
(* current room, paths, enemies, room items) of src/src/world.rs and the   *)
(* Player (hp, in_combat, inventory) of src/src/player/mod.rs.             *)
(*                                                                         *)
(* Representation.                                                         *)
(*   HashMap<String, V>   a function whose DOMAIN is the set of keys       *)
(*   Option<V>            a set: {} is None, {v} is Some(v)                *)
(*   Result<T, WorldError>  [tag |-> "Ok" | "Err", val |-> ...]            *)
(*   format!(...)         [text |-> the format string, args |-> <<...>>]   *)
(*   Box<Item>            a record; its field id is the identity of the    *)
(*                        allocation (two items may share a name, never an *)
(*                        id), so that a lost or duplicated item is seen   *)
(***************************************************************************)
EXTENDS Integers, FiniteSets, Sequences, TLC

VARIABLES world, player, ret

vars == <<world, player, ret>>

\* ------------------------------------------------------------- bounds
\* harm_enemy is not applied once it would take an enemy's hp below -HpFloor
\* (the code's i32 has no such floor; the bound keeps the state space finite).
HpFloor == 6

\* take_damage is tried with the amounts -1 .. MaxDamage, and is not applied
\* once the player's hp would leave -HpSlack .. cap + HpSlack.
MaxDamage == 3

HpSlack == 2

\* ------------------------------------------------------------- constants
\* rest: rand::thread_rng().gen_range(1, 7) draws from 1 .. 6
HealLow == 1

HealHigh == 7

\* ------------------------------------------------------------- HashMap / Option
None == {}

Some(v) == {v}

EmptyMap == [k \in {} |-> {}]

\* HashMap::get
Get(m, k) == IF k \in DOMAIN m THEN Some(m[k]) ELSE None

\* HashMap::insert: an existing entry under the same key is replaced
Insert(m, k, v) == [x \in DOMAIN m \cup {k} |-> IF x = k THEN v ELSE m[x]]

\* HashMap::remove (the map part; the removed value is Get(m, k))
Remove(m, k) == [x \in DOMAIN m \ {k} |-> m[x]]

\* HashMap::extend: entries of n replace entries of m under the same key
Extend(m, n) == [x \in DOMAIN m \cup DOMAIN n |-> IF x \in DOMAIN n THEN n[x] ELSE m[x]]

\* ------------------------------------------------------------- results
Ok(v) == [tag |-> "Ok", val |-> v]

Err(e) == [tag |-> "Err", val |-> e]

NoRoom == "NoRoom"

Msg(t, a) == [text |-> t, args |-> a]

CmdResult(ok, msg) == [ok |-> ok, text |-> msg]

\* ------------------------------------------------------------- Item, Path, Enemy
\* crate::entities::{Item, Path, Enemy} are used by world.rs and player/mod.rs
\* but their definitions are not among the sources; they follow the data model.
Item(id, name, damage, contents) ==
    [id |-> id, name |-> name, damage |-> damage, contents |-> contents]

\* Item::contents_mut: Some(map) for a container, None otherwise
Item_contents(it) == it.contents

Item_with_contents(it, c) == [it EXCEPT !.contents = Some(c)]

Path(target, locked, closed) == [target |-> target, locked |-> locked, closed |-> closed]

\* Path::is_locked / is_closed return Option<bool>
Path_is_locked(p) == Some(p.locked)

Path_is_closed(p) == Some(p.closed)

Path_open(p) == [p EXCEPT !.closed = FALSE]

Path_close(p) == [p EXCEPT !.closed = TRUE]

Enemy(hp, loot) == [hp |-> hp, loot |-> loot]

\* Enemy::get_hit: hp may go below zero
Enemy_get_hit(e, dmg) == [e EXCEPT !.hp = e.hp - dmg]

\* ------------------------------------------------------------- Room
\* Room::desc: name, description, then the description of every item
Room_desc(id, room) == Msg("{}\n{}\n{items}", <<id, DOMAIN room.items>>)

\* ------------------------------------------------------------- World
\* A World is [curr_room, rooms]; a Room is [paths, items, enemies].
\* Every operation returns the World after it and its result.
HasRoom(w) == w.curr_room \in DOMAIN w.rooms

CurrRoom(w) == w.rooms[w.curr_room]

World_look(w) ==
    IF HasRoom(w) THEN Ok(Room_desc(w.curr_room, CurrRoom(w))) ELSE Err(NoRoom)

World_inspect(w, name) ==
    IF HasRoom(w)
    THEN LET room == CurrRoom(w) IN
         IF name \in DOMAIN room.items THEN Some(Msg("item {}", <<name>>))
         ELSE IF name \in DOMAIN room.paths THEN Some(Msg("path {}", <<name>>))
         ELSE IF name \in DOMAIN room.enemies THEN Some(Msg("enemy {}", <<name>>))
         ELSE None
    ELSE None

\* Variants of move_room and open_path, each with one slip, against which the
\* properties below are tested.
\* closed is tested before locked
World_move_room_closed_first(w, direction) ==
    IF HasRoom(w)
    THEN LET room == CurrRoom(w) IN
         IF direction \in DOMAIN room.paths
         THEN LET new_room == room.paths[direction] IN
              IF Path_is_closed(new_room) = Some(TRUE)
              THEN [w |-> w, res |-> Ok(Msg("The way is closed.", <<>>))]
              ELSE IF Path_is_locked(new_room) = Some(TRUE)
              THEN [w |-> w, res |-> Ok(Msg("The way is locked.", <<>>))]
              ELSE LET moved == [w EXCEPT !.curr_room = new_room.target] IN
                   [w |-> moved, res |-> World_look(moved)]
         ELSE [w |-> w, res |-> Ok(Msg("You cannot go that way.", <<>>))]
    ELSE [w |-> w, res |-> Err(NoRoom)]

\* a direction without a path is reported as a missing room
World_move_room_no_path_is_error(w, direction) ==
    IF HasRoom(w) /\ direction \in DOMAIN CurrRoom(w).paths
    THEN LET new_room == CurrRoom(w).paths[direction] IN
         IF Path_is_locked(new_room) = Some(TRUE)
         THEN [w |-> w, res |-> Ok(Msg("The way is locked.", <<>>))]
         ELSE IF Path_is_closed(new_room) = Some(TRUE)
         THEN [w |-> w, res |-> Ok(Msg("The way is closed.", <<>>))]
         ELSE LET moved == [w EXCEPT !.curr_room = new_room.target] IN
              [w |-> moved, res |-> World_look(moved)]
    ELSE [w |-> w, res |-> Err(NoRoom)]

\* look() is called before curr_room is assigned
World_move_room_look_first(w, direction) ==
    IF HasRoom(w)
    THEN LET room == CurrRoom(w) IN
         IF direction \in DOMAIN room.paths
         THEN LET new_room == room.paths[direction] IN
              IF Path_is_locked(new_room) = Some(TRUE)
              THEN [w |-> w, res |-> Ok(Msg("The way is locked.", <<>>))]
              ELSE IF Path_is_closed(new_room) = Some(TRUE)
              THEN [w |-> w, res |-> Ok(Msg("The way is closed.", <<>>))]
              ELSE [w |-> [w EXCEPT !.curr_room = new_room.target], res |-> World_look(w)]
         ELSE [w |-> w, res |-> Ok(Msg("You cannot go that way.", <<>>))]
    ELSE [w |-> w, res |-> Err(NoRoom)]

\* curr_room is set to the direction, not to the path's target
World_move_room_to_direction(w, direction) ==
    IF HasRoom(w)
    THEN LET room == CurrRoom(w) IN
         IF direction \in DOMAIN room.paths
         THEN LET new_room == room.paths[direction] IN
              IF Path_is_locked(new_room) = Some(TRUE)
              THEN [w |-> w, res |-> Ok(Msg("The way is locked.", <<>>))]
              ELSE IF Path_is_closed(new_room) = Some(TRUE)
              THEN [w |-> w, res |-> Ok(Msg("The way is closed.", <<>>))]
              ELSE LET moved == [w EXCEPT !.curr_room = direction] IN
                   [w |-> moved, res |-> World_look(moved)]
         ELSE [w |-> w, res |-> Ok(Msg("You cannot go that way.", <<>>))]
    ELSE [w |-> w, res |-> Err(NoRoom)]

\* curr_room is assigned only if look() succeeds on the target
World_move_room_checked(w, direction) ==
    IF HasRoom(w)
    THEN LET room == CurrRoom(w) IN
         IF direction \in DOMAIN room.paths
         THEN LET new_room == room.paths[direction] IN
              IF Path_is_locked(new_room) = Some(TRUE)
              THEN [w |-> w, res |-> Ok(Msg("The way is locked.", <<>>))]
              ELSE IF Path_is_closed(new_room) = Some(TRUE)
              THEN [w |-> w, res |-> Ok(Msg("The way is closed.", <<>>))]
              ELSE LET moved == [w EXCEPT !.curr_room = new_room.target] IN
                   IF HasRoom(moved)
                   THEN [w |-> moved, res |-> World_look(moved)]
                   ELSE [w |-> w, res |-> Err(NoRoom)]
         ELSE [w |-> w, res |-> Ok(Msg("You cannot go that way.", <<>>))]
    ELSE [w |-> w, res |-> Err(NoRoom)]

World_move_room(w, direction) ==
    IF HasRoom(w)
    THEN LET room == CurrRoom(w) IN
         IF direction \in DOMAIN room.paths
         THEN LET new_room == room.paths[direction] IN
              IF Path_is_locked(new_room) = Some(TRUE)
              THEN [w |-> w, res |-> Ok(Msg("The way is locked.", <<>>))]
              ELSE IF Path_is_closed(new_room) = Some(TRUE)
              THEN [w |-> w, res |-> Ok(Msg("The way is closed.", <<>>))]
              ELSE LET moved == [w EXCEPT !.curr_room = new_room.target] IN
                   [w |-> moved, res |-> World_look(moved)]
         ELSE [w |-> w, res |-> Ok(Msg("You cannot go that way.", <<>>))]
    ELSE [w |-> w, res |-> Err(NoRoom)]

\* open_path on an open path closes it (a toggle)
World_open_path_toggle(w, path) ==
    IF HasRoom(w)
    THEN LET room == CurrRoom(w) IN
         IF path \in DOMAIN room.paths
         THEN LET p == room.paths[path] IN
              IF Path_is_closed(p) = Some(TRUE)
              THEN [w |-> [w EXCEPT !.rooms[w.curr_room].paths[path] = Path_open(p)],
                    res |-> Ok(Msg("Opened.", <<>>))]
              ELSE [w |-> [w EXCEPT !.rooms[w.curr_room].paths[path] = Path_close(p)],
                    res |-> Ok(Msg("The {} is already opened.", <<path>>))]
         ELSE [w |-> w, res |-> Ok(Msg("There is no \"{}\".", <<path>>))]
    ELSE [w |-> w, res |-> Err(NoRoom)]

\* open_path also unlocks the path
World_open_path_unlocks(w, path) ==
    IF HasRoom(w)
    THEN LET room == CurrRoom(w) IN
         IF path \in DOMAIN room.paths
         THEN LET p == room.paths[path] IN
              IF Path_is_closed(p) = Some(TRUE)
              THEN [w |-> [w EXCEPT !.rooms[w.curr_room].paths[path] =
                               [Path_open(p) EXCEPT !.locked = FALSE]],
                    res |-> Ok(Msg("Opened.", <<>>))]
              ELSE [w |-> w, res |-> Ok(Msg("The {} is already opened.", <<path>>))]
         ELSE [w |-> w, res |-> Ok(Msg("There is no \"{}\".", <<path>>))]
    ELSE [w |-> w, res |-> Err(NoRoom)]

World_open_path(w, path) ==
    IF HasRoom(w)
    THEN LET room == CurrRoom(w) IN
         IF path \in DOMAIN room.paths
         THEN LET p == room.paths[path] IN
              IF Path_is_closed(p) = Some(TRUE)
              THEN [w |-> [w EXCEPT !.rooms[w.curr_room].paths[path] = Path_open(p)],
                    res |-> Ok(Msg("Opened.", <<>>))]
              ELSE [w |-> w, res |-> Ok(Msg("The {} is already opened.", <<path>>))]
         ELSE [w |-> w, res |-> Ok(Msg("There is no \"{}\".", <<path>>))]
    ELSE [w |-> w, res |-> Err(NoRoom)]

World_close_path(w, path) ==
    IF HasRoom(w)
    THEN LET room == CurrRoom(w) IN
         IF path \in DOMAIN room.paths
         THEN LET p == room.paths[path] IN
              IF Path_is_closed(p) = Some(TRUE)
              THEN [w |-> w, res |-> Ok(Msg("The {} is already closed.", <<path>>))]
              ELSE [w |-> [w EXCEPT !.rooms[w.curr_room].paths[path] = Path_close(p)],
                    res |-> Ok(Msg("Closed.", <<>>))]
         ELSE [w |-> w, res |-> Ok(Msg("There is no \"{}\".", <<path>>))]
    ELSE [w |-> w, res |-> Err(NoRoom)]

\* an enemy left with hp = 0 counts as alive
World_harm_enemy_zero_alive(w, enemy, weapon, damage) ==
    IF HasRoom(w)
    THEN LET room == CurrRoom(w) IN
         IF enemy \in DOMAIN room.enemies
         THEN IF damage # None
              THEN LET dmg == CHOOSE d \in damage : TRUE
                       nme == Enemy_get_hit(room.enemies[enemy], dmg)
                       hit == [w EXCEPT !.rooms[w.curr_room].enemies[enemy] = nme]
                   IN  IF nme.hp >= 0
                       THEN [w |-> hit,
                             res |-> Ok(CmdResult(TRUE,
                                 Msg("You hit the {} with your {} for {} damage.",
                                     <<enemy, weapon, dmg>>)))]
                       ELSE IF DOMAIN nme.loot # {}
                       THEN [w |-> hit,
                             res |-> Ok(CmdResult(TRUE,
                                 Msg("You hit the {} with your {} for {} damage. It is dead.\nIt dropped:\n {},",
                                     <<enemy, weapon, dmg, DOMAIN nme.loot>>)))]
                       ELSE [w |-> hit,
                             res |-> Ok(CmdResult(TRUE,
                                 Msg("You hit the {} with your {} for {} damage. It is dead.\n",
                                     <<enemy, weapon, dmg>>)))]
              ELSE [w |-> w,
                    res |-> Ok(CmdResult(FALSE,
                        Msg("You do not have the \"{}\". {:?} ", <<weapon, damage>>)))]
         ELSE [w |-> w,
               res |-> Ok(CmdResult(FALSE, Msg("There is no \"{}\" here.", <<enemy>>)))]
    ELSE [w |-> w, res |-> Err(NoRoom)]

\* damage is an Option<i32>
World_harm_enemy(w, enemy, weapon, damage) ==
    IF HasRoom(w)
    THEN LET room == CurrRoom(w) IN
         IF enemy \in DOMAIN room.enemies
         THEN IF damage # None
              THEN LET dmg == CHOOSE d \in damage : TRUE
                       nme == Enemy_get_hit(room.enemies[enemy], dmg)
                       hit == [w EXCEPT !.rooms[w.curr_room].enemies[enemy] = nme]
                   IN  IF nme.hp > 0
                       THEN [w |-> hit,
                             res |-> Ok(CmdResult(TRUE,
                                 Msg("You hit the {} with your {} for {} damage.",
                                     <<enemy, weapon, dmg>>)))]
                       ELSE IF DOMAIN nme.loot # {}
                       THEN [w |-> hit,
                             res |-> Ok(CmdResult(TRUE,
                                 Msg("You hit the {} with your {} for {} damage. It is dead.\nIt dropped:\n {},",
                                     <<enemy, weapon, dmg, DOMAIN nme.loot>>)))]
                       ELSE [w |-> hit,
                             res |-> Ok(CmdResult(TRUE,
                                 Msg("You hit the {} with your {} for {} damage. It is dead.\n",
                                     <<enemy, weapon, dmg>>)))]
              ELSE [w |-> w,
                    res |-> Ok(CmdResult(FALSE,
                        Msg("You do not have the \"{}\". {:?} ", <<weapon, damage>>)))]
         ELSE [w |-> w,
               res |-> Ok(CmdResult(FALSE, Msg("There is no \"{}\" here.", <<enemy>>)))]
    ELSE [w |-> w, res |-> Err(NoRoom)]

\* give, give_from and give_all return the World after the call and what is
\* handed to the caller: an Option<Box<Item>> or an ItemMap.
World_give(w, name) ==
    IF HasRoom(w)
    THEN [w |-> [w EXCEPT !.rooms[w.curr_room].items = Remove(@, name)],
          out |-> Get(CurrRoom(w).items, name)]
    ELSE [w |-> w, out |-> None]

\* the item is read from the container (get), not removed
World_give_from_keeps(w, item, container) ==
    IF HasRoom(w)
    THEN LET items == CurrRoom(w).items IN
         IF container \in DOMAIN items
         THEN LET cont == items[container] IN
              IF Item_contents(cont) # None
              THEN LET contents == CHOOSE c \in Item_contents(cont) : TRUE IN
                   [w |-> w, out |-> Get(contents, item)]
              ELSE [w |-> w, out |-> None]
         ELSE [w |-> w, out |-> None]
    ELSE [w |-> w, out |-> None]

World_give_from(w, item, container) ==
    IF HasRoom(w)
    THEN LET items == CurrRoom(w).items IN
         IF container \in DOMAIN items
         THEN LET cont == items[container] IN
              IF Item_contents(cont) # None
              THEN LET contents == CHOOSE c \in Item_contents(cont) : TRUE IN
                   [w |-> [w EXCEPT !.rooms[w.curr_room].items[container] =
                               Item_with_contents(cont, Remove(contents, item))],
                    out |-> Get(contents, item)]
              ELSE [w |-> w, out |-> None]
         ELSE [w |-> w, out |-> None]
    ELSE [w |-> w, out |-> None]

\* the room's items are cleared before they are cloned
World_give_all_clear_first(w) ==
    IF HasRoom(w)
    THEN LET cleared == [w EXCEPT !.rooms[w.curr_room].items = EmptyMap] IN
         [w |-> cleared, out |-> CurrRoom(cleared).items]
    ELSE [w |-> w, out |-> EmptyMap]

World_give_all(w) ==
    IF HasRoom(w)
    THEN [w |-> [w EXCEPT !.rooms[w.curr_room].items = EmptyMap],
          out |-> CurrRoom(w).items]
    ELSE [w |-> w, out |-> EmptyMap]

\* item is an Option<Box<Item>>: the caller has given it up, and an item that
\* no branch stores is dropped when the call returns
World_insert(w, cmd, name, item) ==
    IF HasRoom(w)
    THEN IF item # None
         THEN LET obj == CHOOSE o \in item : TRUE IN
              [w |-> [w EXCEPT !.rooms[w.curr_room].items = Insert(@, obj.name, obj)],
               res |-> IF cmd = "throw"
                       THEN Ok(Msg("You throw the {} across the room.", <<name>>))
                       ELSE Ok(Msg("Dropped.", <<>>))]
         ELSE [w |-> w, res |-> Ok(Msg("You do not have the \"{}\".", <<name>>))]
    ELSE [w |-> w, res |-> Err(NoRoom)]

\* without the container the item is put into the room instead
World_insert_into_or_room(w, name, container, item) ==
    IF HasRoom(w)
    THEN IF item # None
         THEN LET obj == CHOOSE o \in item : TRUE
                  items == CurrRoom(w).items
              IN  IF container \in DOMAIN items
                  THEN LET cont == items[container] IN
                       IF Item_contents(cont) # None
                       THEN LET contents == CHOOSE c \in Item_contents(cont) : TRUE IN
                            [w |-> [w EXCEPT !.rooms[w.curr_room].items[container] =
                                        Item_with_contents(cont, Insert(contents, obj.name, obj))],
                             res |-> Ok(Msg("Placed.", <<>>))]
                       ELSE [w |-> w, res |-> Ok(Msg("You can not put anything in there.", <<>>))]
                  ELSE [w |-> [w EXCEPT !.rooms[w.curr_room].items = Insert(@, obj.name, obj)],
                        res |-> Ok(Msg("There is no \"{}\" here.", <<container>>))]
         ELSE [w |-> w, res |-> Ok(Msg("You do not have the \"{}\".", <<name>>))]
    ELSE [w |-> w, res |-> Err(NoRoom)]

World_insert_into(w, name, container, item) ==
    IF HasRoom(w)
    THEN IF item # None
         THEN LET obj == CHOOSE o \in item : TRUE
                  items == CurrRoom(w).items
              IN  IF container \in DOMAIN items
                  THEN LET cont == items[container] IN
                       IF Item_contents(cont) # None
                       THEN LET contents == CHOOSE c \in Item_contents(cont) : TRUE IN
                            [w |-> [w EXCEPT !.rooms[w.curr_room].items[container] =
                                        Item_with_contents(cont, Insert(contents, obj.name, obj))],
                             res |-> Ok(Msg("Placed.", <<>>))]
                       ELSE [w |-> w, res |-> Ok(Msg("You can not put anything in there.", <<>>))]
                  ELSE [w |-> w, res |-> Ok(Msg("There is no \"{}\" here.", <<container>>))]
         ELSE [w |-> w, res |-> Ok(Msg("You do not have the \"{}\".", <<name>>))]
    ELSE [w |-> w, res |-> Err(NoRoom)]

\* ------------------------------------------------------------- Player
\* A Player is [hp, in_combat, inventory]; hp is <<current, cap>>.
\* in_combat is set before the weapon is looked up
Player_attack_always_in_combat(p, weapon) ==
    IF weapon \in DOMAIN p.inventory
    THEN [p |-> [p EXCEPT !.in_combat = TRUE], out |-> Some(p.inventory[weapon].damage)]
    ELSE [p |-> [p EXCEPT !.in_combat = TRUE], out |-> None]

Player_attack(p, weapon) ==
    IF weapon \in DOMAIN p.inventory
    THEN [p |-> [p EXCEPT !.in_combat = TRUE], out |-> Some(p.inventory[weapon].damage)]
    ELSE [p |-> p, out |-> None]

\* the heal is not clamped to the cap
Player_rest_unclamped(p, regained_hp) ==
    IF p.hp[1] < p.hp[2]
    THEN LET new_hp == p.hp[1] + regained_hp
             healed == [p EXCEPT !.hp = <<new_hp, p.hp[2]>>]
         IN  [p |-> healed,
              res |-> Msg("You regained {} HP for a total of ({} / {}) HP.",
                          <<regained_hp, healed.hp[1], healed.hp[2]>>)]
    ELSE [p |-> p, res |-> Msg("You already have full health.", <<>>)]

\* resting ends the combat
Player_rest_ends_combat(p, regained_hp) ==
    IF p.hp[1] < p.hp[2]
    THEN LET new_hp == p.hp[1] + regained_hp
             healed == IF new_hp < p.hp[2]
                       THEN [p EXCEPT !.hp = <<new_hp, p.hp[2]>>, !.in_combat = FALSE]
                       ELSE [p EXCEPT !.hp = <<p.hp[2], p.hp[2]>>, !.in_combat = FALSE]
         IN  [p |-> healed,
              res |-> Msg("You regained {} HP for a total of ({} / {}) HP.",
                          <<regained_hp, healed.hp[1], healed.hp[2]>>)]
    ELSE [p |-> p, res |-> Msg("You already have full health.", <<>>)]

\* regained_hp is the value drawn by gen_range(1, 7)
Player_rest(p, regained_hp) ==
    IF p.hp[1] < p.hp[2]
    THEN LET new_hp == p.hp[1] + regained_hp
             healed == IF new_hp < p.hp[2]
                       THEN [p EXCEPT !.hp = <<new_hp, p.hp[2]>>]
                       ELSE [p EXCEPT !.hp = <<p.hp[2], p.hp[2]>>]
         IN  [p |-> healed,
              res |-> Msg("You regained {} HP for a total of ({} / {}) HP.",
                          <<regained_hp, healed.hp[1], healed.hp[2]>>)]
    ELSE [p |-> p, res |-> Msg("You already have full health.", <<>>)]

Player_status(p) == Msg("You have ({} / {}) HP.", <<p.hp[1], p.hp[2]>>)

Player_take_damage(p, damage) == [p EXCEPT !.hp = <<p.hp[1] - damage, p.hp[2]>>]

Player_inspect(p, name) ==
    IF name \in {"me", "self", "myself"}
    THEN Some(Player_status(p))
    ELSE IF name \in DOMAIN p.inventory
    THEN Some(Msg("item {}", <<name>>))
    ELSE None

Player_take(p, name, item) ==
    IF item # None
    THEN LET obj == CHOOSE o \in item : TRUE IN
         [p |-> [p EXCEPT !.inventory = Insert(@, obj.name, obj)],
          res |-> Msg("Taken.", <<>>)]
    ELSE [p |-> p, res |-> Msg("There is no \"{}\" here.", <<name>>)]

Player_take_all(p, items) ==
    [p |-> [p EXCEPT !.inventory = Extend(@, items)], res |-> Msg("Taken.", <<>>)]

Player_remove(p, name) ==
    [p |-> [p EXCEPT !.inventory = Remove(@, name)], out |-> Get(p.inventory, name)]

\* ------------------------------------------------------------- the loaded game
\* Two items are named "sword": the player holds one, the other is in the chest.
Sword == Item(1, "sword", 6, None)

ChestSword == Item(2, "sword", 6, None)

Chest == Item(3, "chest", 0, Some([k \in {"sword"} |-> ChestSword]))

Fang == Item(4, "fang", 2, None)

Room(paths, items, enemies) == [paths |-> paths, items |-> items, enemies |-> enemies]

Cave ==
    Room([d \in {"north", "east"} |->
              IF d = "north" THEN Path("tunnel", TRUE, TRUE) ELSE Path("tunnel", FALSE, TRUE)],
         [n \in {"chest"} |-> Chest],
         EmptyMap)

Tunnel ==
    Room([d \in {"west"} |-> Path("cave", FALSE, FALSE)],
         EmptyMap,
         [n \in {"wolf"} |-> Enemy(12, [k \in {"fang"} |-> Fang])])

LoadedWorld ==
    [curr_room |-> "cave",
     rooms |-> [r \in {"cave", "tunnel"} |-> IF r = "cave" THEN Cave ELSE Tunnel]]

LoadedPlayer ==
    [hp |-> <<10, 10>>, in_combat |-> FALSE, inventory |-> [n \in {"sword"} |-> Sword]]

\* ------------------------------------------------------------- command inputs
Dirs == {"north", "east", "west"}

ItemNames == {"sword", "chest"}

LeafNames == {"sword"}

WeaponNames == {"sword"}

ContainerNames == {"chest", "sword"}

EnemyNames == {"wolf"}

InspectNames == {"chest", "north", "wolf"}

Verbs == {"drop", "throw"}

\* ------------------------------------------------------------- commands
\* ret is the last command with its arguments, its result, and what passed
\* between World and Player during it (the Option or ItemMap handed over).
Returned(op, args, res, given) == [op |-> op, args |-> args, res |-> res, given |-> given]

Init ==
    /\ world = LoadedWorld
    /\ player = LoadedPlayer
    /\ ret = Returned("load", <<>>, Ok(Msg("", <<>>)), None)

Look ==
    /\ ret' = Returned("look", <<>>, World_look(world), None)
    /\ UNCHANGED <<world, player>>

Inspect(name) ==
    /\ ret' = Returned("inspect", <<name>>, World_inspect(world, name), None)
    /\ UNCHANGED <<world, player>>

MoveRoom(direction) ==
    LET r == World_move_room(world, direction) IN
    /\ world' = r.w
    /\ ret' = Returned("move_room", <<direction>>, r.res, None)
    /\ UNCHANGED player

OpenPath(path) ==
    LET r == World_open_path(world, path) IN
    /\ world' = r.w
    /\ ret' = Returned("open_path", <<path>>, r.res, None)
    /\ UNCHANGED player

ClosePath(path) ==
    LET r == World_close_path(world, path) IN
    /\ world' = r.w
    /\ ret' = Returned("close_path", <<path>>, r.res, None)
    /\ UNCHANGED player

\* world.harm_enemy(enemy, weapon, player.attack(weapon))
Attack(enemy, weapon) ==
    LET a == Player_attack(player, weapon)
        r == World_harm_enemy(world, enemy, weapon, a.out)
    IN  /\ HasRoom(r.w)
               => \A e \in DOMAIN CurrRoom(r.w).enemies :
                     CurrRoom(r.w).enemies[e].hp >= -HpFloor
        /\ player' = a.p
        /\ world' = r.w
        /\ ret' = Returned("harm_enemy", <<enemy, weapon>>, r.res, a.out)

\* player.take(name, world.give(name))
Take(name) ==
    LET g == World_give(world, name)
        t == Player_take(player, name, g.out)
    IN  /\ world' = g.w
        /\ player' = t.p
        /\ ret' = Returned("take", <<name>>, t.res, g.out)

\* player.take(item, world.give_from(item, container))
TakeFrom(item, container) ==
    LET g == World_give_from(world, item, container)
        t == Player_take(player, item, g.out)
    IN  /\ world' = g.w
        /\ player' = t.p
        /\ ret' = Returned("take_from", <<item, container>>, t.res, g.out)

\* player.take_all(world.give_all())
TakeAll ==
    LET g == World_give_all(world)
        t == Player_take_all(player, g.out)
    IN  /\ world' = g.w
        /\ player' = t.p
        /\ ret' = Returned("take_all", <<>>, t.res, g.out)

\* world.insert(cmd, name, player.remove(name))
Drop(cmd, name) ==
    LET d == Player_remove(player, name)
        r == World_insert(world, cmd, name, d.out)
    IN  /\ player' = d.p
        /\ world' = r.w
        /\ ret' = Returned("insert", <<cmd, name>>, r.res, d.out)

\* world.insert_into(name, container, player.remove(name))
PutIn(name, container) ==
    LET d == Player_remove(player, name)
        r == World_insert_into(world, name, container, d.out)
    IN  /\ player' = d.p
        /\ world' = r.w
        /\ ret' = Returned("insert_into", <<name, container>>, r.res, d.out)

Next ==
    \/ Look
    \/ \E name \in InspectNames : Inspect(name)
    \/ \E direction \in Dirs : MoveRoom(direction)
    \/ \E path \in Dirs : OpenPath(path)
    \/ \E path \in Dirs : ClosePath(path)
    \/ \E enemy \in EnemyNames, weapon \in WeaponNames : Attack(enemy, weapon)
    \/ \E name \in ItemNames : Take(name)
    \/ \E item \in LeafNames, container \in ContainerNames : TakeFrom(item, container)
    \/ TakeAll
    \/ \E cmd \in Verbs, name \in ItemNames : Drop(cmd, name)
    \/ \E name \in ItemNames, container \in ContainerNames : PutIn(name, container)

Spec == Init /\ [][Next]_vars

\* ------------------------------------------------------------- the player alone
\* The commands on the Player, from the loaded game with the player in either
\* room; the World takes part through the attack and the item commands.
HealAmounts == HealLow .. (HealHigh - 1)

DamageAmounts == -1 .. MaxDamage

PlayerNames == {"me", "sword", "chest"}

\* the loaded game after open_path("east"), move_room("east")
WorldInTunnel == World_move_room(World_open_path(LoadedWorld, "east").w, "east").w

InitPlayer ==
    /\ world \in {LoadedWorld, WorldInTunnel}
    /\ player = LoadedPlayer
    /\ ret = Returned("load", <<>>, Ok(Msg("", <<>>)), None)

\* given is the heal amount drawn, if one is drawn
Rest(regained_hp) ==
    LET r == Player_rest(player, regained_hp) IN
    /\ player' = r.p
    /\ ret' = Returned("rest", <<>>, r.res,
                       IF player.hp[1] < player.hp[2] THEN Some(regained_hp) ELSE None)
    /\ UNCHANGED world

TakeDamage(damage) ==
    LET hurt == Player_take_damage(player, damage) IN
    /\ hurt.hp[1] >= -HpSlack
    /\ hurt.hp[1] <= hurt.hp[2] + HpSlack
    /\ player' = hurt
    /\ ret' = Returned("take_damage", <<damage>>, None, None)
    /\ UNCHANGED world

PlayerInspect(name) ==
    /\ ret' = Returned("player_inspect", <<name>>, Player_inspect(player, name), None)
    /\ UNCHANGED <<world, player>>

NextPlayer ==
    \/ \E regained_hp \in HealAmounts : Rest(regained_hp)
    \/ \E damage \in DamageAmounts : TakeDamage(damage)
    \/ \E name \in PlayerNames : PlayerInspect(name)
    \/ \E enemy \in EnemyNames, weapon \in WeaponNames : Attack(enemy, weapon)
    \/ \E name \in ItemNames : Take(name)
    \/ \E item \in LeafNames, container \in ContainerNames : TakeFrom(item, container)
    \/ TakeAll
    \/ \E cmd \in Verbs, name \in ItemNames : Drop(cmd, name)
    \/ \E name \in ItemNames, container \in ContainerNames : PutIn(name, container)

SpecPlayer == InitPlayer /\ [][NextPlayer]_vars

\* ------------------------------------------------------------- a broken game
\* The loaded game with the loader's invariant broken: the tunnel's path west
\* names a room that is no key of rooms.
BrokenWorld == [LoadedWorld EXCEPT !.rooms["tunnel"].paths["west"].target = "void"]

InitBroken ==
    /\ world = BrokenWorld
    /\ player = LoadedPlayer
    /\ ret = Returned("load", <<>>, Ok(Msg("", <<>>)), None)

SpecBroken == InitBroken /\ [][Next]_vars

\* ============================================================= properties
\* Observations of the last command.
Ran(op) == ret.op = op

IsOk(res) == res.tag = "Ok"

\* the format string of a Result<String, WorldError>
Text(res) == IF IsOk(res) THEN res.val.text ELSE NoRoom

\* the format string of a Result<CmdResult, WorldError>
CmdText(res) == IF IsOk(res) THEN res.val.text.text ELSE NoRoom

DeadText == "You hit the {} with your {} for {} damage. It is dead.\n"

DroppedText == "You hit the {} with your {} for {} damage. It is dead.\nIt dropped:\n {},"

Died(res) == CmdText(res) \in {DeadText, DroppedText}

EnemiesHere(w) == IF HasRoom(w) THEN CurrRoom(w).enemies ELSE EmptyMap

PathsHere(w) == IF HasRoom(w) THEN CurrRoom(w).paths ELSE EmptyMap

\* ------------------------------------------------------------- item places
\* Every place that holds an item, as <<holder, key, nested key, id>>: the
\* items of each room, the inventory, the loot of each enemy, and the contents
\* of each of these that is a container.
Places(holder, m) ==
    {<<holder, k, "", m[k].id>> : k \in DOMAIN m}
    \cup UNION {UNION {{<<holder, k, c, contents[c].id>> : c \in DOMAIN contents}
                       : contents \in Item_contents(m[k])}
                : k \in DOMAIN m}

AllPlaces(w, p) ==
    Places(<<"inventory">>, p.inventory)
    \cup UNION {Places(<<"room", r>>, w.rooms[r].items) : r \in DOMAIN w.rooms}
    \cup UNION {UNION {Places(<<"loot", r, e>>, w.rooms[r].enemies[e].loot)
                       : e \in DOMAIN w.rooms[r].enemies}
                : r \in DOMAIN w.rooms}

PlacesOf(id, w, p) == {pl \in AllPlaces(w, p) : pl[4] = id}

ItemIds == {pl[4] : pl \in AllPlaces(LoadedWorld, LoadedPlayer)}

\* C1: through every sequence of item transfers between the room's items, the
\* inventory and a container in the room, the number of items is conserved and
\* no item is in two places: every item of the loaded game is in exactly one
\* place, also after insert_into with a held item and a missing or
\* non-container target, and after a take or insert onto an existing name.
ItemsConserved ==
    /\ Cardinality(AllPlaces(world, player)) = Cardinality(ItemIds)
    /\ \A id \in ItemIds : Cardinality(PlacesOf(id, world, player)) = 1

\* C2: once an enemy of the current room is dead (hp <= 0), a further
\* harm_enemy against it does not enumerate its loot again.
LootReportedOnce ==
    [][\A e \in EnemyNames :
          (/\ e \in DOMAIN EnemiesHere(world)
           /\ EnemiesHere(world)[e].hp <= 0
           /\ ret'.op = "harm_enemy"
           /\ ret'.args[1] = e)
          => CmdText(ret'.res) # DroppedText]_vars

\* C3: after a harm_enemy that brings an enemy's hp to <= 0 the enemy is not in
\* the current room's enemy set: inspect does not find it as an enemy and a
\* further harm_enemy reports that there is no such enemy.
DeadEnemyGone ==
    \A e \in EnemyNames :
        (Ran("harm_enemy") /\ ret.args[1] = e /\ Died(ret.res))
        => /\ e \notin DOMAIN EnemiesHere(world)
           /\ World_inspect(world, e) # Some(Msg("enemy {}", <<e>>))
           /\ CmdText(World_harm_enemy(world, e, "sword", Some(6)).res)
                  = "There is no \"{}\" here."

\* C4: the harm_enemy that kills an enemy moves every item of its loot into the
\* current room's item set in the same command, and the enemy holds it no more.
LootMovedOnDeath ==
    [][\A e \in EnemyNames :
          (/\ e \in DOMAIN EnemiesHere(world)
           /\ EnemiesHere(world)[e].hp > 0
           /\ ret'.op = "harm_enemy"
           /\ ret'.args[1] = e
           /\ Died(ret'.res))
          => LET loot == EnemiesHere(world)[e].loot IN
             \A k \in DOMAIN loot :
                /\ Get(CurrRoom(world').items, k) = Some(loot[k])
                /\ e \in DOMAIN EnemiesHere(world')
                       => k \notin DOMAIN EnemiesHere(world')[e].loot]_vars

\* ------------------------------------------------------------- movement
AllPaths(w) == [r \in DOMAIN w.rooms |-> w.rooms[r].paths]

LockedText == "The way is locked."

ClosedText == "The way is closed."

CannotGoText == "You cannot go that way."

DescText == "{}\n{}\n{items}"

\* C5: a locked path blocks move_room whatever its closed flag is ("The way is
\* locked.", curr_room unchanged), and a blocked move_room (locked or closed)
\* changes no path's target, locked or closed flag in any room.
LockedBlocksMove ==
    [][\A d \in Dirs :
          (ret'.op = "move_room" /\ ret'.args[1] = d /\ d \in DOMAIN PathsHere(world))
          => LET p == PathsHere(world)[d] IN
             /\ p.locked => /\ Text(ret'.res) = LockedText
                            /\ world'.curr_room = world.curr_room
             /\ (p.locked \/ p.closed) => AllPaths(world') = AllPaths(world)]_vars

\* a move_room along a path that is locked but not closed has been blocked
LockedOpenPathBlocked ==
    /\ Ran("move_room")
    /\ ret.args = <<"north">>
    /\ world.curr_room = "cave"
    /\ PathsHere(world)["north"].locked
    /\ ~PathsHere(world)["north"].closed
    /\ Text(ret.res) = LockedText

\* C6: move_room in a direction that is no key of the current room's paths
\* returns Ok("You cannot go that way.") and changes neither curr_room nor
\* anything else of the room graph.
NoPathNoMove ==
    [][\A d \in Dirs :
          (ret'.op = "move_room" /\ ret'.args[1] = d /\ d \notin DOMAIN PathsHere(world))
          => /\ IsOk(ret'.res)
             /\ Text(ret'.res) = CannotGoText
             /\ world' = world]_vars

\* move_room has been refused for lack of a path, away from the first room
NoPathRefused ==
    /\ Ran("move_room")
    /\ world.curr_room = "tunnel"
    /\ ret.args[1] \notin DOMAIN PathsHere(world)
    /\ Text(ret.res) = CannotGoText

\* C7: for a direction among the current room's paths the flags decide in the
\* order locked, closed, open: closed and not locked gives "The way is closed."
\* and no change; neither gives curr_room = the path's target and the target
\* room's look(), and nothing else in the world changes.
MovePriority ==
    [][\A d \in Dirs :
          (ret'.op = "move_room" /\ ret'.args[1] = d /\ d \in DOMAIN PathsHere(world))
          => LET p == PathsHere(world)[d] IN
             /\ p.locked => Text(ret'.res) = LockedText
             /\ (~p.locked /\ p.closed)
                    => Text(ret'.res) = ClosedText /\ world' = world /\ player' = player
             /\ (~p.locked /\ ~p.closed)
                    => /\ world' = [world EXCEPT !.curr_room = p.target]
                       /\ ret'.res = World_look(world')
                       /\ player' = player]_vars

\* move_room has taken the player into the tunnel, where an item lies
MovedToTunnel ==
    /\ Ran("move_room")
    /\ world.curr_room = "tunnel"
    /\ Text(ret.res) = DescText
    /\ ret.res.val.args = <<"tunnel", {"sword"}>>

\* C8: from a world whose curr_room and path targets are keys of rooms, after
\* any sequence of commands curr_room is a key of rooms, the keys of rooms are
\* those of the loaded world, and no command has returned NoRoom.
ResultOps ==
    {"load", "look", "move_room", "open_path", "close_path", "harm_enemy", "insert",
     "insert_into"}

RoomAlwaysValid ==
    /\ HasRoom(world)
    /\ DOMAIN world.rooms = DOMAIN LoadedWorld.rooms
    /\ ret.op \in ResultOps => IsOk(ret.res)

\* the player has been to the tunnel, killed the wolf and come back
BackInCave ==
    /\ Ran("move_room")
    /\ world.curr_room = "cave"
    /\ world.rooms["tunnel"].enemies["wolf"].hp <= 0
    /\ Text(ret.res) = DescText

\* C9: open_path on an open path answers "The <name> is already opened." and
\* changes nothing, close_path on a closed path answers "The <name> is already
\* closed." and changes nothing, at every call; open_path on a closed path
\* sets closed to false and close_path on an open path sets it to true.
OpenCloseIdempotent ==
    [][\A n \in Dirs :
          (n \in DOMAIN PathsHere(world) /\ ret'.args = <<n>>)
          => LET p == PathsHere(world)[n] IN
             /\ ret'.op = "open_path"
                    => IF p.closed
                       THEN ~PathsHere(world')[n].closed
                       ELSE /\ Text(ret'.res) = "The {} is already opened."
                            /\ ret'.res.val.args = <<n>>
                            /\ world' = world
             /\ ret'.op = "close_path"
                    => IF p.closed
                       THEN /\ Text(ret'.res) = "The {} is already closed."
                            /\ ret'.res.val.args = <<n>>
                            /\ world' = world
                       ELSE PathsHere(world')[n].closed]_vars

\* open_path has been repeated on a path that was already open
OpenedTwice ==
    /\ Ran("open_path")
    /\ ret.args = <<"east">>
    /\ Text(ret.res) = "The {} is already opened."
    /\ ~PathsHere(world)["east"].closed

\* C10: open_path and close_path change only the closed flag of the named path
\* of the current room; no command changes a path's locked flag or target; and
\* curr_room changes only by a move_room along a path that is not locked.
OnlyClosedToggles ==
    [][/\ DOMAIN world'.rooms = DOMAIN world.rooms
       /\ \A r \in DOMAIN world.rooms :
             /\ DOMAIN world'.rooms[r].paths = DOMAIN world.rooms[r].paths
             /\ \A d \in DOMAIN world.rooms[r].paths :
                   /\ world'.rooms[r].paths[d].locked = world.rooms[r].paths[d].locked
                   /\ world'.rooms[r].paths[d].target = world.rooms[r].paths[d].target
       /\ ret'.op \in {"open_path", "close_path"}
             => /\ player' = player
                /\ IF ret'.args[1] \in DOMAIN PathsHere(world)
                   THEN \E c \in BOOLEAN :
                           world' = [world EXCEPT
                               !.rooms[world.curr_room].paths[ret'.args[1]].closed = c]
                   ELSE world' = world
       /\ world'.curr_room # world.curr_room
             => /\ ret'.op = "move_room"
                /\ ret'.args[1] \in DOMAIN PathsHere(world)
                /\ ~PathsHere(world)[ret'.args[1]].locked
                /\ PathsHere(world)[ret'.args[1]].target = world'.curr_room]_vars

\* open_path has opened the locked path, which stays locked
LockedPathOpened ==
    /\ Ran("open_path")
    /\ ret.args = <<"north">>
    /\ Text(ret.res) = "Opened."
    /\ PathsHere(world)["north"].locked
    /\ ~PathsHere(world)["north"].closed

\* ------------------------------------------------------------- player hp
FullHealthText == "You already have full health."

RegainedText == "You regained {} HP for a total of ({} / {}) HP."

\* C11: for a player with current <= cap, rest() does not lower current, does
\* not take it above cap and leaves cap alone; from below cap, current ends
\* strictly greater (by at most the largest heal) or at cap; at cap, rest()
\* answers "You already have full health." and changes nothing.
RestHeals ==
    [][(ret'.op = "rest" /\ player.hp[1] <= player.hp[2])
          => LET current == player.hp[1]
                 cap == player.hp[2]
                 after == player'.hp[1]
             IN  /\ player'.hp[2] = cap
                 /\ after >= current
                 /\ after <= cap
                 /\ current < cap
                       => /\ after > current
                          /\ after - current <= HealHigh - 1 \/ after = cap
                          /\ ret'.res.text = RegainedText
                 /\ current = cap
                       => /\ ret'.res.text = FullHealthText
                          /\ player' = player
                          /\ world' = world]_vars

\* rest() has healed 2 HP without reaching the cap
RestedBelowCap ==
    /\ Ran("rest")
    /\ ret.given = Some(2)
    /\ player.hp = <<9, 10>>

\* C12: when rest() heals, the amount n of its message "You regained {n} HP for
\* a total of ({hp} / {cap}) HP." is the change of current hp, for every
\* starting hp and every heal drawn, clamped or not.
RestReportsDelta ==
    [][(ret'.op = "rest" /\ player.hp[1] < player.hp[2])
          => /\ ret'.res.text = RegainedText
             /\ ret'.res.args[1] = player'.hp[1] - player.hp[1]
             /\ ret'.res.args[2] = player'.hp[1]
             /\ ret'.res.args[3] = player'.hp[2]]_vars

\* C13: current <= cap is kept by every Player operation (attack, rest,
\* take_damage with any amount, take, take_all, remove, inspect), and
\* take_damage subtracts its amount from current, unclamped below, and leaves
\* cap alone.
HpNeverAboveCap ==
    [][/\ player.hp[1] <= player.hp[2] => player'.hp[1] <= player'.hp[2]
       /\ ret'.op = "take_damage"
             => player'.hp = <<player.hp[1] - ret'.args[1], player.hp[2]>>]_vars

\* ------------------------------------------------------------- items and combat
ItemsHere(w) == IF HasRoom(w) THEN CurrRoom(w).items ELSE EmptyMap

\* the contents of the container named c in the current room, if it is one
ContentsHere(w, c) ==
    IF c \in DOMAIN ItemsHere(w) THEN Item_contents(ItemsHere(w)[c]) ELSE None

\* C14: give_all() returns exactly the current room's item set as it was
\* (containers with their contents) and leaves it empty; the items of the other
\* rooms, all paths, all enemies and curr_room are unchanged.
GiveAllEmptiesRoom ==
    [][ret'.op = "take_all"
          => /\ ret'.given = ItemsHere(world)
             /\ ItemsHere(world') = EmptyMap
             /\ world' = [world EXCEPT !.rooms[world.curr_room].items = EmptyMap]]_vars

\* give_all() has handed over a sword and the chest with the sword in it
GaveAllWithChest ==
    /\ Ran("take_all")
    /\ DOMAIN ret.given = {"sword", "chest"}
    /\ ret.given["chest"] = Chest
    /\ ItemsHere(world) = EmptyMap

\* C15: give_from(item, container) removes the item from the contents of the
\* container of the current room and returns it, the container stays in the
\* room, and the same call repeated returns nothing and changes nothing; if
\* the container is absent, is no container or does not hold the item, it
\* returns nothing and changes nothing.
GiveFromRemoves ==
    [][\A i \in LeafNames, c \in ContainerNames :
          (ret'.op = "take_from" /\ ret'.args = <<i, c>>)
          => IF \E contents \in ContentsHere(world, c) : i \in DOMAIN contents
             THEN LET contents == CHOOSE m \in ContentsHere(world, c) : TRUE IN
                  /\ ret'.given = Some(contents[i])
                  /\ world' = [world EXCEPT !.rooms[world.curr_room].items[c].contents =
                                  Some(Remove(contents, i))]
                  /\ c \in DOMAIN ItemsHere(world')
                  /\ World_give_from(world', i, c).out = None
                  /\ World_give_from(world', i, c).w = world'
             ELSE /\ ret'.given = None
                  /\ world' = world]_vars

\* give_from has taken the sword out of the chest, which stays in the cave
SwordOutOfChest ==
    /\ Ran("take_from")
    /\ ret.args = <<"sword", "chest">>
    /\ ret.given = Some(ChestSword)
    /\ ContentsHere(world, "chest") = Some(EmptyMap)

\* C16: attack(weapon) with the weapon in the inventory sets in_combat and
\* returns the weapon's damage; without it, it returns nothing and in_combat
\* keeps its value; hp and the inventory are unchanged either way.
AttackFrame ==
    [][\A weapon \in WeaponNames :
          (ret'.op = "harm_enemy" /\ ret'.args[2] = weapon)
          => /\ player'.hp = player.hp
             /\ player'.inventory = player.inventory
             /\ IF weapon \in DOMAIN player.inventory
                THEN /\ player'.in_combat
                     /\ ret'.given = Some(player.inventory[weapon].damage)
                ELSE /\ ret'.given = None
                     /\ player'.in_combat = player.in_combat]_vars

\* attack without the weapon has returned nothing, out of combat
AttackedEmptyHanded ==
    /\ Ran("harm_enemy")
    /\ ret.given = None
    /\ "sword" \notin DOMAIN player.inventory
    /\ ~player.in_combat

HitText == "You hit the {} with your {} for {} damage."

\* C17: harm_enemy returns ok = false exactly when damage is absent or the
\* enemy is not in the current room, and then nothing in the world changes;
\* otherwise ok = true and the enemy's hp is reduced by exactly damage, with a
\* hit message when the new hp > 0 and a death message when it is <= 0.
HarmEnemyResult ==
    [][\A e \in EnemyNames :
          (ret'.op = "harm_enemy" /\ ret'.args[1] = e)
          => LET damage == ret'.given
                 present == e \in DOMAIN EnemiesHere(world)
             IN  /\ IsOk(ret'.res)
                 /\ ret'.res.val.ok <=> (damage # None /\ present)
                 /\ IF damage = None \/ ~present
                    THEN world' = world
                    ELSE LET dmg == CHOOSE d \in damage : TRUE
                             hp == EnemiesHere(world)[e].hp
                         IN  /\ world' = [world EXCEPT
                                    !.rooms[world.curr_room].enemies[e].hp = hp - dmg]
                             /\ hp - dmg > 0 => CmdText(ret'.res) = HitText
                             /\ hp - dmg <= 0 => Died(ret'.res)]_vars

\* harm_enemy has brought the wolf to exactly 0 hp and reported its death
WolfKilledAtZero ==
    /\ Ran("harm_enemy")
    /\ "wolf" \in DOMAIN EnemiesHere(world)
    /\ EnemiesHere(world)["wolf"].hp = 0
    /\ ret.res.val.ok
    /\ Died(ret.res)

NoPathText == "There is no \"{}\"."

NotHeldText == "You do not have the \"{}\"."

NotHereText == "There is no \"{}\" here."

NoContainerText == "You can not put anything in there."

\* C18: the soft errors of World are Ok results that leave the World as it
\* was: open_path/close_path with an unknown name or on a path already in that
\* state, insert and insert_into without an item, insert_into with a missing
\* container or a target that is no container.
SoftErrorsKeepWorld ==
    [][/\ ret'.op \in {"open_path", "close_path"}
             => /\ ret'.args[1] \notin DOMAIN PathsHere(world)
                       => Text(ret'.res) = NoPathText /\ world' = world
                /\ Text(ret'.res) \in {"The {} is already opened.", "The {} is already closed."}
                       => world' = world
                /\ (/\ ret'.args[1] \in DOMAIN PathsHere(world)
                    /\ PathsHere(world)[ret'.args[1]].closed = (ret'.op = "close_path"))
                       => /\ Text(ret'.res) = IF ret'.op = "close_path"
                                              THEN "The {} is already closed."
                                              ELSE "The {} is already opened."
                          /\ world' = world
       /\ (ret'.op \in {"insert", "insert_into"} /\ ret'.given = None)
             => Text(ret'.res) = NotHeldText /\ world' = world
       /\ (ret'.op = "insert_into" /\ ret'.given # None)
             => LET c == ret'.args[2] IN
                /\ c \notin DOMAIN ItemsHere(world)
                      => Text(ret'.res) = NotHereText /\ world' = world
                /\ (c \in DOMAIN ItemsHere(world) /\ ContentsHere(world, c) = None)
                      => Text(ret'.res) = NoContainerText /\ world' = world]_vars

\* insert_into has refused a held item because the target is no container
PutIntoNonContainer ==
    /\ Ran("insert_into")
    /\ ret.given # None
    /\ Text(ret.res) = NoContainerText

\* ------------------------------------------------------------- a dangling path
IsNoRoom(res) == res.tag = "Err" /\ res.val = NoRoom

\* C19: when an open, unlocked path of the current room targets a room id that
\* is no key of rooms, move_room along it returns NoRoom and has set curr_room
\* to that id; from then on curr_room is never valid: look, move_room,
\* open_path, close_path, harm_enemy, insert and insert_into return NoRoom and
\* give, give_from and inspect return nothing.
DanglingMoveSticks ==
    [][/\ \A d \in Dirs :
             (/\ ret'.op = "move_room"
              /\ ret'.args[1] = d
              /\ d \in DOMAIN PathsHere(world)
              /\ ~PathsHere(world)[d].locked
              /\ ~PathsHere(world)[d].closed
              /\ PathsHere(world)[d].target \notin DOMAIN world.rooms)
             => /\ IsNoRoom(ret'.res)
                /\ world'.curr_room = PathsHere(world)[d].target
                /\ world'.curr_room # world.curr_room
       /\ ~HasRoom(world)
             => /\ ~HasRoom(world')
                /\ world' = world
                /\ ret'.op \in {"look", "move_room", "open_path", "close_path",
                                "harm_enemy", "insert", "insert_into"}
                       => IsNoRoom(ret'.res)
                /\ ret'.op \in {"take", "take_from"} => ret'.given = None
                /\ ret'.op = "inspect" => ret'.res = None]_vars

\* after the move into the missing room a held item is dropped: insert fails
InsertWithoutRoom ==
    /\ ~HasRoom(world)
    /\ world.curr_room = "void"
    /\ Ran("insert")
    /\ ret.given # None
    /\ IsNoRoom(ret.res)

\* ------------------------------------------------------------- in_combat
\* C20: in_combat is never set back to false: once attack has found its weapon
\* in the inventory, in_combat is true in every later state, also when the
\* harm_enemy that follows fails for lack of the enemy, when the enemy is
\* killed, and after rest().
InCombatStays ==
    [][player.in_combat => player'.in_combat]_vars

\* the wolf has been killed, the player was hurt and has rested, still in combat
RestedAfterKill ==
    /\ Ran("rest")
    /\ ret.given # None
    /\ player.in_combat
    /\ "wolf" \in DOMAIN EnemiesHere(world)
    /\ EnemiesHere(world)["wolf"].hp <= 0

====
